---- MODULE Spec2Model ----
(***************************************************************************)
(* Outbound handler of the proxy (src/proxy/tcp/handler.rs): Handler::new  *)
(* resolves an OutboundConfig into a Handler, Handler::dispatch routes a   *)
(* request to one of four escalators (direct, tcp, grpc, quic), each of    *)
(* which dials, escalates, hands over the request header and then relays   *)
(* in both directions until one direction ends.                            *)
(*                                                                         *)
(* One action is one step of the code between two suspension points; the   *)
(* outcome of every network operation is an input of the action.           *)
(***************************************************************************)
EXTENDS Integers, Sequences, FiniteSets, TLC

VARIABLES
    outbound,   \* the OutboundConfig handed to Handler::new
    newResult,  \* what Handler::new returned: "pending", "Ok", "InvalidInput", "panic"
    handler,    \* <<>> until Handler::new returned Ok(handler), then <<handler>>
    pc,         \* per session: position of the dispatch call
    request,    \* per session: <<>> or <<InboundRequest>>
    result,     \* per session: "pending", "Ok", an ErrorKind, or "panic"
    failure,    \* per session: the escalation step whose I/O failed, or "none"
    net,        \* per session: what the session did on the network so far
    relay,      \* per session: state of the two relay directions
    sent        \* per session: bytes delivered to the sink of each direction

vars == <<outbound, newResult, handler, pc, request, result, failure, net, relay, sent>>

----------------------------------------------------------------------------
(* Bounds *)

MaxBytes == 2

----------------------------------------------------------------------------
(* Option<T> is a sequence of length 0 or 1 *)

None == <<>>
Some(v) == <<v>>
IsSome(o) == Len(o) = 1
Unwrap(o) == o[1]

Modes == {"DIRECT", "TCP", "GRPC", "QUIC"}
Protocols == {"TROJAN", "SOCKS", "DIRECT"}
TransportProtocols == {"TCP", "UDP"}
Directions == {"up", "down"}

Other(dir) == IF dir = "up" THEN "down" ELSE "up"

\* trojan::HEX_SIZE, the width of the hex token
HEX_SIZE == 56

\* output size of Sha224 in bytes
DigestLen == 28

\* the address handle_quic_stream dials
QuicRemote == <<"127.0.0.1", "8081">>

----------------------------------------------------------------------------
(* Inputs *)

\* plaintext secrets, as byte strings ("s3" and "pw")
Secrets == {<<115, 51>>, <<112, 119>>}

\* configured addresses: an IP literal and a host name (which SocketAddr cannot parse)
Addresses == {"127.0.0.1", "example.org"}
Ports == {"9001"}

\* tls.host_name values: one that ServerName accepts and one it rejects
HostNames == {"example.com", "bad host"}

\* socket addresses are <<ip, port>>
RequestAddrs == {<<"10.0.0.1", "80">>, <<"10.0.0.2", "53">>}

Requests == [transport_protocol : TransportProtocols, addr : RequestAddrs]

DialErrors == {"ConnectionRefused", "TimedOut"}
TlsErrors == {"InvalidData"}
WriteErrors == {"BrokenPipe"}
BindErrors == {"AddrInUse"}

OutboundConfigs ==
    [mode : Modes, protocol : Protocols,
     address : {None} \cup {Some(a) : a \in Addresses},
     port : {None} \cup {Some(p) : p \in Ports},
     tls : {None} \cup {Some(h) : h \in HostNames},
     secret : {None} \cup {Some(x) : x \in Secrets}]

----------------------------------------------------------------------------
(* Secret derivation, Handler::new lines 82-94 *)

RECURSIVE SumBytes(_)
SumBytes(bytes) == IF bytes = <<>> THEN 0 ELSE Head(bytes) + SumBytes(Tail(bytes))

\* Sha224::digest (sha2 crate): stands for the digest by what the handler relies on, a
\* fixed function from byte strings to DigestLen bytes; the byte values are not SHA-224's
Sha224Digest(bytes) ==
    [i \in 1..DigestLen |-> (SumBytes(bytes) * (2 * i + 1) + 31 * i + Len(bytes)) % 256]

\* one hexadecimal digit of "{:x}", as its ASCII code
HexDigit(n) == IF n < 10 THEN 48 + n ELSE 87 + n

\* format!("{:02x}", x)
Format02x(x) == <<HexDigit(x \div 16), HexDigit(x % 16)>>

RECURSIVE ConcatAll(_)
ConcatAll(seqs) == IF seqs = <<>> THEN <<>> ELSE Head(seqs) \o ConcatAll(Tail(seqs))

\* .iter().map(|x| format!("{:02x}", x)).collect::<String>().as_bytes().to_vec()
HexEncode(digest) == ConcatAll([i \in 1..Len(digest) |-> Format02x(digest[i])])

\* the secret field of the Handler
DeriveSecret(cfg) ==
    IF cfg.protocol = "TROJAN" /\ IsSome(cfg.secret)
    THEN HexEncode(Sha224Digest(Unwrap(cfg.secret)))
    ELSE <<>>

----------------------------------------------------------------------------
(* Handler::new *)

\* ServerName::try_from(host_name)
ServerNameOk(h) == h = "example.com"

\* format!("{}:{}", addr, port).parse::<SocketAddr>()
ParseSocketAddr(addr, port) ==
    IF addr = "127.0.0.1" THEN Some(<<addr, port>>) ELSE None

\* variant: an address without a port is taken as no destination at all
NewOutcome_LenientPort(cfg) ==
    IF IsSome(cfg.tls) /\ ~ServerNameOk(Unwrap(cfg.tls))
    THEN <<"InvalidInput", None>>
    ELSE IF ~IsSome(cfg.address) /\ IsSome(cfg.port)
    THEN <<"InvalidInput", None>>
    ELSE IF IsSome(cfg.address) /\ IsSome(cfg.port)
            /\ ~IsSome(ParseSocketAddr(Unwrap(cfg.address), Unwrap(cfg.port)))
    THEN <<"panic", None>>
    ELSE <<"Ok",
           Some([mode |-> cfg.mode,
                 protocol |-> cfg.protocol,
                 destination |-> IF IsSome(cfg.address) /\ IsSome(cfg.port)
                                 THEN ParseSocketAddr(Unwrap(cfg.address), Unwrap(cfg.port))
                                 ELSE None,
                 tls |-> cfg.tls,
                 secret |-> DeriveSecret(cfg)])>>

\* the outcome of Handler::new on cfg: <<result, Option<Handler>>>
NewOutcome(cfg) ==
    IF IsSome(cfg.tls) /\ ~ServerNameOk(Unwrap(cfg.tls))
    THEN <<"InvalidInput", None>>
    ELSE IF IsSome(cfg.address) /\ ~IsSome(cfg.port)
    THEN <<"InvalidInput", None>>
    ELSE IF ~IsSome(cfg.address) /\ IsSome(cfg.port)
    THEN <<"InvalidInput", None>>
    ELSE IF IsSome(cfg.address)
            /\ ~IsSome(ParseSocketAddr(Unwrap(cfg.address), Unwrap(cfg.port)))
    THEN <<"panic", None>>
    ELSE <<"Ok",
           Some([mode |-> cfg.mode,
                 protocol |-> cfg.protocol,
                 destination |-> IF IsSome(cfg.address)
                                 THEN ParseSocketAddr(Unwrap(cfg.address), Unwrap(cfg.port))
                                 ELSE None,
                 tls |-> cfg.tls,
                 secret |-> DeriveSecret(cfg)])>>

HandlerNew ==
    /\ newResult = "pending"
    /\ newResult' = NewOutcome(outbound)[1]
    /\ handler' = NewOutcome(outbound)[2]
    /\ UNCHANGED <<outbound, pc, request, result, failure, net, relay, sent>>

H == Unwrap(handler)

----------------------------------------------------------------------------
(* Sessions *)

Sessions == DOMAIN pc

NoNet == [dials |-> 0, target |-> None, tls |-> FALSE, hs |-> 0, hsWidth |-> None]
NoRelay == [up |-> "idle", down |-> "idle"]
NoSent == [up |-> 0, down |-> 0]

\* variant: the GRPC arm calls the tcp escalator
Escalator_GrpcAsTcp(mode) ==
    CASE mode = "DIRECT" -> "direct"
      [] mode = "TCP" -> "tcp"
      [] mode = "GRPC" -> "tcp"
      [] mode = "QUIC" -> "quic"

\* dispatch: match self.mode
Escalator(mode) ==
    CASE mode = "DIRECT" -> "direct"
      [] mode = "TCP" -> "tcp"
      [] mode = "GRPC" -> "grpc"
      [] mode = "QUIC" -> "quic"

\* variant: the call keeps the request's address in the Handler's destination
Dispatch_StoreDestination(s, req) ==
    /\ IsSome(handler)
    /\ pc[s] = "idle"
    /\ pc' = [pc EXCEPT ![s] = Escalator(H.mode)]
    /\ request' = [request EXCEPT ![s] = Some(req)]
    /\ handler' = Some([H EXCEPT !.destination = Some(req.addr)])
    /\ UNCHANGED <<outbound, newResult, result, failure, net, relay, sent>>

Dispatch(s, req) ==
    /\ IsSome(handler)
    /\ pc[s] = "idle"
    /\ pc' = [pc EXCEPT ![s] = Escalator(H.mode)]
    /\ request' = [request EXCEPT ![s] = Some(req)]
    /\ UNCHANGED <<outbound, newResult, handler, result, failure, net, relay, sent>>

Req(s) == Unwrap(request[s])

\* the dispatch call returns Err(kind)
ReturnErr(s, kind) ==
    /\ pc' = [pc EXCEPT ![s] = "done"]
    /\ result' = [result EXCEPT ![s] = kind]

\* the task of the dispatch call panics
Panic(s) ==
    /\ pc' = [pc EXCEPT ![s] = "aborted"]
    /\ result' = [result EXCEPT ![s] = "panic"]

Goto(s, label) ==
    /\ pc' = [pc EXCEPT ![s] = label]
    /\ UNCHANGED result

Dialed(s, addr) == [net EXCEPT ![s].dials = @ + 1, ![s].target = Some(addr)]

StartRelay(s) ==
    /\ pc' = [pc EXCEPT ![s] = "relay"]
    /\ relay' = [relay EXCEPT ![s] = [up |-> "running", down |-> "running"]]
    /\ UNCHANGED result

----------------------------------------------------------------------------
(* Relay result: every select! arm is `_ = ... => ()`, whatever the arm's   *)
(* future returned, and the escalator then returns Ok(())                  *)

\* variant: the arm hands the error of its future to the caller
RelayResult_Propagate(cause) == IF cause = "error" THEN "BrokenPipe" ELSE "Ok"

RelayResult(cause) == "Ok"

----------------------------------------------------------------------------
(* handle_direct_stream *)

\* TransportProtocol::TCP: TcpStream::connect(request address)
DirectTcpConnect(s, ok) ==
    /\ pc[s] = "direct"
    /\ Req(s).transport_protocol = "TCP"
    /\ net' = Dialed(s, Req(s).addr)
    /\ IF ok
       THEN /\ StartRelay(s)
            /\ UNCHANGED failure
       ELSE /\ ReturnErr(s, "ConnectionRefused")
            /\ failure' = [failure EXCEPT ![s] = "dial"]
            /\ UNCHANGED relay
    /\ UNCHANGED <<outbound, newResult, handler, request, sent>>

\* TransportProtocol::UDP: UdpSocket::bind("0.0.0.0:0").await?
DirectUdpBind(s, ok, err) ==
    /\ pc[s] = "direct"
    /\ Req(s).transport_protocol = "UDP"
    /\ IF ok
       THEN /\ Goto(s, "direct_udp")
            /\ UNCHANGED failure
       ELSE /\ ReturnErr(s, err)
            /\ failure' = [failure EXCEPT ![s] = "bind"]
    /\ UNCHANGED <<outbound, newResult, handler, request, net, relay, sent>>

\* socket.connect(request address)
DirectUdpConnect(s, ok) ==
    /\ pc[s] = "direct_udp"
    /\ net' = Dialed(s, Req(s).addr)
    /\ IF ok
       THEN /\ StartRelay(s)
            /\ UNCHANGED failure
       ELSE /\ ReturnErr(s, "ConnectionRefused")
            /\ failure' = [failure EXCEPT ![s] = "dial"]
            /\ UNCHANGED relay
    /\ UNCHANGED <<outbound, newResult, handler, request, sent>>

----------------------------------------------------------------------------
(* handle_tcp_stream *)

\* variant: without a destination of its own the handler dials the request's address
TcpConnect_DialRequest(s, ok, err) ==
    /\ pc[s] = "tcp"
    /\ net' = Dialed(s, IF IsSome(H.destination) THEN Unwrap(H.destination) ELSE Req(s).addr)
    /\ IF ok
       THEN /\ Goto(s, "tcp_tls")
            /\ UNCHANGED failure
       ELSE /\ ReturnErr(s, err)
            /\ failure' = [failure EXCEPT ![s] = "dial"]
    /\ UNCHANGED <<outbound, newResult, handler, request, relay, sent>>

\* match self.destination: Some(dest) => TcpStream::connect(dest).await?, None => Err
TcpConnect(s, ok, err) ==
    /\ pc[s] = "tcp"
    /\ IF ~IsSome(H.destination)
       THEN /\ ReturnErr(s, "NotConnected")
            /\ UNCHANGED <<net, failure>>
       ELSE /\ net' = Dialed(s, Unwrap(H.destination))
            /\ IF ok
               THEN /\ Goto(s, "tcp_tls")
                    /\ UNCHANGED failure
               ELSE /\ ReturnErr(s, err)
                    /\ failure' = [failure EXCEPT ![s] = "dial"]
    /\ UNCHANGED <<outbound, newResult, handler, request, relay, sent>>

\* variant: the connection is wrapped as Plain whatever self.tls is
TcpTls_Plain(s, ok, err) ==
    /\ pc[s] = "tcp_tls"
    /\ Goto(s, "tcp_protocol")
    /\ UNCHANGED <<outbound, newResult, handler, request, failure, net, relay, sent>>

\* match &self.tls: Some => connector.connect(domain, connection).await?, None => Plain
TcpTls(s, ok, err) ==
    /\ pc[s] = "tcp_tls"
    /\ IF ~IsSome(H.tls)
       THEN /\ Goto(s, "tcp_protocol")
            /\ UNCHANGED <<net, failure>>
       ELSE IF ok
       THEN /\ Goto(s, "tcp_protocol")
            /\ net' = [net EXCEPT ![s].tls = TRUE]
            /\ UNCHANGED failure
       ELSE /\ ReturnErr(s, err)
            /\ failure' = [failure EXCEPT ![s] = "tls"]
            /\ UNCHANGED net
    /\ UNCHANGED <<outbound, newResult, handler, request, relay, sent>>

\* match self.protocol, and the check of the secret's width for TROJAN
TcpProtocol(s) ==
    /\ pc[s] = "tcp_protocol"
    /\ IF H.protocol = "TROJAN"
       THEN IF Len(H.secret) # HEX_SIZE
            THEN ReturnErr(s, "InvalidInput")
            ELSE Goto(s, "tcp_handshake")
       ELSE ReturnErr(s, "Unsupported")
    /\ UNCHANGED <<outbound, newResult, handler, request, failure, net, relay, sent>>

\* the header has been written with the given token
HandshakeWritten(s, token) == [net EXCEPT ![s].hs = @ + 1, ![s].hsWidth = Some(Len(token))]

\* handshake(stream, &request, &self.secret).await?
TcpHandshake(s, ok, err) ==
    /\ pc[s] = "tcp_handshake"
    /\ IF ok
       THEN /\ net' = HandshakeWritten(s, H.secret)
            /\ StartRelay(s)
            /\ UNCHANGED failure
       ELSE /\ ReturnErr(s, err)
            /\ failure' = [failure EXCEPT ![s] = "handshake"]
            /\ UNCHANGED <<net, relay>>
    /\ UNCHANGED <<outbound, newResult, handler, request, sent>>

----------------------------------------------------------------------------
(* handle_grpc_stream *)

\* self.destination.unwrap(), then ProxyServiceClient::connect(endpoint); the endpoint
\* is "https://.." when self.tls is set, which net.tls records for the connected channel
GrpcConnect(s, ok) ==
    /\ pc[s] = "grpc"
    /\ IF ~IsSome(H.destination)
       THEN /\ Panic(s)
            /\ UNCHANGED <<net, failure>>
       ELSE /\ net' = [Dialed(s, Unwrap(H.destination)) EXCEPT ![s].tls = ok /\ IsSome(H.tls)]
            /\ IF ok
               THEN /\ Goto(s, "grpc_proxy")
                    /\ UNCHANGED failure
               ELSE /\ ReturnErr(s, "ConnectionRefused")
                    /\ failure' = [failure EXCEPT ![s] = "dial"]
    /\ UNCHANGED <<outbound, newResult, handler, request, relay, sent>>

\* tx.send(GrpcPacket {trojan: Some(TrojanRequest {hex: self.secret, ..})}) into the
\* fresh channel of capacity 64 whose receiver is alive, so the send cannot fail, then
\* server.proxy(ReceiverStream::new(rx)), which carries the queued message to the peer
GrpcProxy(s, ok) ==
    /\ pc[s] = "grpc_proxy"
    /\ IF ok
       THEN /\ net' = HandshakeWritten(s, H.secret)
            /\ StartRelay(s)
            /\ UNCHANGED failure
       ELSE /\ ReturnErr(s, "Interrupted")
            /\ failure' = [failure EXCEPT ![s] = "open"]
            /\ UNCHANGED <<net, relay>>
    /\ UNCHANGED <<outbound, newResult, handler, request, sent>>

----------------------------------------------------------------------------
(* handle_quic_stream *)

\* endpoint.connect("127.0.0.1:8081", "example.com").unwrap().await.unwrap(); a QUIC
\* connection is established by its TLS handshake, under the client_crypto built here
QuicConnect(s, ok) ==
    /\ pc[s] = "quic"
    /\ net' = [Dialed(s, QuicRemote) EXCEPT ![s].tls = ok]
    /\ IF ok
       THEN /\ Goto(s, "quic_open")
            /\ UNCHANGED failure
       ELSE /\ Panic(s)
            /\ failure' = [failure EXCEPT ![s] = "dial"]
    /\ UNCHANGED <<outbound, newResult, handler, request, relay, sent>>

\* conn.open_bi().await.unwrap()
QuicOpenBi(s, ok) ==
    /\ pc[s] = "quic_open"
    /\ IF ok
       THEN /\ Goto(s, "quic_handshake")
            /\ UNCHANGED failure
       ELSE /\ Panic(s)
            /\ failure' = [failure EXCEPT ![s] = "open"]
    /\ UNCHANGED <<outbound, newResult, handler, request, net, relay, sent>>

\* handshake(&mut server_writer, &request, &self.secret).await; the result is dropped
QuicHandshake(s, ok) ==
    /\ pc[s] = "quic_handshake"
    /\ IF ok
       THEN /\ net' = HandshakeWritten(s, H.secret)
            /\ UNCHANGED failure
       ELSE /\ failure' = [failure EXCEPT ![s] = "handshake"]
            /\ UNCHANGED net
    /\ StartRelay(s)
    /\ UNCHANGED <<outbound, newResult, handler, request, sent>>

----------------------------------------------------------------------------
(* The relay *)

\* the select! of handle_grpc_stream and handle_quic_stream waits on the JoinHandles of
\* two spawned tasks; the select! of the other two polls the two copies itself
Spawned(mode) == mode \in {"GRPC", "QUIC"}

\* one direction delivers one more chunk to its sink
Copy(s, dir) ==
    /\ relay[s][dir] = "running"
    /\ sent[s][dir] < MaxBytes
    /\ sent' = [sent EXCEPT ![s][dir] = @ + 1]
    /\ UNCHANGED <<outbound, newResult, handler, pc, request, result, failure, net, relay>>

\* select! over the two copy futures: the arm of dir completes (EOF or error), the other
\* future is dropped, and the escalator returns
SelectCopy(s, dir, cause) ==
    /\ pc[s] = "relay"
    /\ ~Spawned(H.mode)
    /\ relay[s][dir] = "running"
    /\ relay' = [relay EXCEPT ![s][dir] = cause, ![s][Other(dir)] = "dropped"]
    /\ pc' = [pc EXCEPT ![s] = "done"]
    /\ result' = [result EXCEPT ![s] = RelayResult(cause)]
    /\ UNCHANGED <<outbound, newResult, handler, request, failure, net, sent>>

\* a spawned relay task finishes (EOF or error)
TaskEnd(s, dir, cause) ==
    /\ relay[s][dir] = "running"
    /\ Spawned(H.mode)
    /\ relay' = [relay EXCEPT ![s][dir] = cause]
    /\ UNCHANGED <<outbound, newResult, handler, pc, request, result, failure, net, sent>>

\* variant: the escalator joins both tasks instead of racing them
SelectJoin_WaitBoth(s) ==
    /\ pc[s] = "relay"
    /\ Spawned(H.mode)
    /\ \A dir \in Directions : relay[s][dir] \in {"eof", "error"}
    /\ pc' = [pc EXCEPT ![s] = "done"]
    /\ result' = [result EXCEPT ![s] =
                    RelayResult(IF "error" \in {relay[s][d] : d \in Directions}
                                THEN "error" ELSE "eof")]
    /\ UNCHANGED <<outbound, newResult, handler, request, failure, net, relay, sent>>

\* select! over the two JoinHandles: one of them is ready, the other handle is dropped,
\* which leaves its task running, and the escalator returns
SelectJoin(s) ==
    /\ pc[s] = "relay"
    /\ Spawned(H.mode)
    /\ \E dir \in Directions : relay[s][dir] \in {"eof", "error"}
    /\ pc' = [pc EXCEPT ![s] = "done"]
    /\ result' = [result EXCEPT ![s] =
                    RelayResult(IF "error" \in {relay[s][d] : d \in Directions}
                                THEN "error" ELSE "eof")]
    /\ UNCHANGED <<outbound, newResult, handler, request, failure, net, relay, sent>>

----------------------------------------------------------------------------
(* Specification *)

InitSessions(S) ==
    /\ pc = [s \in S |-> "idle"]
    /\ request = [s \in S |-> None]
    /\ result = [s \in S |-> "pending"]
    /\ failure = [s \in S |-> "none"]
    /\ net = [s \in S |-> NoNet]
    /\ relay = [s \in S |-> NoRelay]
    /\ sent = [s \in S |-> NoSent]

Init ==
    /\ outbound \in OutboundConfigs
    /\ newResult = "pending"
    /\ handler = None
    /\ InitSessions({"s1"})

Next ==
    \/ HandlerNew
    \/ \E s \in Sessions, req \in Requests : Dispatch(s, req)
    \/ \E s \in Sessions, ok \in BOOLEAN : DirectTcpConnect(s, ok)
    \/ \E s \in Sessions, ok \in BOOLEAN, err \in BindErrors : DirectUdpBind(s, ok, err)
    \/ \E s \in Sessions, ok \in BOOLEAN : DirectUdpConnect(s, ok)
    \/ \E s \in Sessions, ok \in BOOLEAN, err \in DialErrors : TcpConnect(s, ok, err)
    \/ \E s \in Sessions, ok \in BOOLEAN, err \in TlsErrors : TcpTls(s, ok, err)
    \/ \E s \in Sessions : TcpProtocol(s)
    \/ \E s \in Sessions, ok \in BOOLEAN, err \in WriteErrors : TcpHandshake(s, ok, err)
    \/ \E s \in Sessions, ok \in BOOLEAN : GrpcConnect(s, ok)
    \/ \E s \in Sessions, ok \in BOOLEAN : GrpcProxy(s, ok)
    \/ \E s \in Sessions, ok \in BOOLEAN : QuicConnect(s, ok)
    \/ \E s \in Sessions, ok \in BOOLEAN : QuicOpenBi(s, ok)
    \/ \E s \in Sessions, ok \in BOOLEAN : QuicHandshake(s, ok)
    \/ \E s \in Sessions, dir \in Directions : Copy(s, dir)
    \/ \E s \in Sessions, dir \in Directions, cause \in {"eof", "error"} :
          SelectCopy(s, dir, cause)
    \/ \E s \in Sessions, dir \in Directions, cause \in {"eof", "error"} :
          TaskEnd(s, dir, cause)
    \/ \E s \in Sessions : SelectJoin(s)

Spec == Init /\ [][Next]_vars

\* two concurrent dispatch calls on one Handler, for the configurations with a
\* destination, a secret and protocol TROJAN, in every mode
ConcConfigs ==
    {cfg \in OutboundConfigs :
        /\ cfg.protocol = "TROJAN"
        /\ cfg.address = Some("127.0.0.1") /\ cfg.port = Some("9001")
        /\ cfg.tls = None
        /\ cfg.secret = Some(<<115, 51>>)}

InitConc ==
    /\ outbound \in ConcConfigs
    /\ newResult = "pending"
    /\ handler = None
    /\ InitSessions({"s1", "s2"})

\* the request each of the two concurrent calls is made with: either transport
\* protocol, and an address of its own
ConcRequests(s) ==
    {req \in Requests : req.addr = IF s = "s1" THEN <<"10.0.0.1", "80">> ELSE <<"10.0.0.2", "53">>}

NextConc ==
    \/ HandlerNew
    \/ \E s \in Sessions : \E req \in ConcRequests(s) : Dispatch(s, req)
    \/ \E s \in Sessions, ok \in BOOLEAN : DirectTcpConnect(s, ok)
    \/ \E s \in Sessions, ok \in BOOLEAN, err \in BindErrors : DirectUdpBind(s, ok, err)
    \/ \E s \in Sessions, ok \in BOOLEAN : DirectUdpConnect(s, ok)
    \/ \E s \in Sessions, ok \in BOOLEAN, err \in DialErrors : TcpConnect(s, ok, err)
    \/ \E s \in Sessions, ok \in BOOLEAN, err \in TlsErrors : TcpTls(s, ok, err)
    \/ \E s \in Sessions : TcpProtocol(s)
    \/ \E s \in Sessions, ok \in BOOLEAN, err \in WriteErrors : TcpHandshake(s, ok, err)
    \/ \E s \in Sessions, ok \in BOOLEAN : GrpcConnect(s, ok)
    \/ \E s \in Sessions, ok \in BOOLEAN : GrpcProxy(s, ok)
    \/ \E s \in Sessions, ok \in BOOLEAN : QuicConnect(s, ok)
    \/ \E s \in Sessions, ok \in BOOLEAN : QuicOpenBi(s, ok)
    \/ \E s \in Sessions, ok \in BOOLEAN : QuicHandshake(s, ok)
    \/ \E s \in Sessions, dir \in Directions : Copy(s, dir)
    \/ \E s \in Sessions, dir \in Directions, cause \in {"eof", "error"} :
          SelectCopy(s, dir, cause)
    \/ \E s \in Sessions, dir \in Directions, cause \in {"eof", "error"} :
          TaskEnd(s, dir, cause)
    \/ \E s \in Sessions : SelectJoin(s)

SpecConc == InitConc /\ [][NextConc]_vars

\* the runtime wakes the task of the dispatch call once a JoinHandle it selects on is
\* ready, so the select! of the spawned relay is taken when it stays enabled
SpecLive == Spec /\ WF_vars(\E s \in Sessions : SelectJoin(s))

TypeOK ==
    /\ newResult \in {"pending", "Ok", "InvalidInput", "panic"}
    /\ \A s \in Sessions :
          /\ sent[s].up \in 0..MaxBytes /\ sent[s].down \in 0..MaxBytes
          /\ net[s].dials \in 0..1 /\ net[s].hs \in 0..1

----------------------------------------------------------------------------
(* Properties *)

\* the (mode, protocol) pairs some escalator serves: only handle_tcp_stream looks at
\* the protocol, and it serves TROJAN alone
Supported(mode, protocol) == mode # "TCP" \/ protocol = "TROJAN"

Ended(s, dir) == relay[s][dir] \in {"eof", "error", "dropped"}

LowerHex == (48..57) \cup (97..102)

\* C1: for a (mode, protocol) pair no escalator serves (Tcp mode with Socks or Direct),
\* dispatch returns Unsupported and the session has made no dial and no TLS handshake,
\* also when the handler has a destination it could dial
C1_UnsupportedBeforeIO ==
    \A s \in Sessions :
        (/\ IsSome(handler) /\ pc[s] # "idle" /\ ~Supported(H.mode, H.protocol)
         /\ IsSome(H.destination))
            => /\ net[s].dials = 0
               /\ ~net[s].tls
               /\ pc[s] = "done" => result[s] = "Unsupported"

C3_GrpcMissingDestination ==
    \A s \in Sessions :
        (IsSome(handler) /\ H.mode = "GRPC" /\ ~IsSome(H.destination))
            => /\ net[s] = NoNet
               /\ pc[s] # "aborted"
               /\ pc[s] = "done" => result[s] = "NotConnected"

\* C4: with protocol Trojan and a token that is not HEX_SIZE wide, the Tcp escalator
\* fails with InvalidInput (the token width error) before it dials its destination,
\* upgrades to TLS or writes a handshake
C4_TokenWidthBeforeIO ==
    \A s \in Sessions :
        (/\ IsSome(handler) /\ H.mode = "TCP" /\ IsSome(H.destination)
         /\ H.protocol = "TROJAN" /\ Len(H.secret) # HEX_SIZE
         /\ pc[s] # "idle")
            => /\ net[s].dials = 0
               /\ ~net[s].tls
               /\ net[s].hs = 0
               /\ pc[s] = "done" => result[s] = "InvalidInput"

\* C5: when the protocol is Trojan and no secret is configured, Handler::new returns an
\* InvalidInput (configuration) error and no Handler, so no session is dispatched
C5_ResolveRequiresSecret ==
    (/\ outbound.protocol = "TROJAN" /\ ~IsSome(outbound.secret)
     /\ newResult \notin {"pending", "panic"})
        => /\ newResult = "InvalidInput"
           /\ handler = None
           /\ \A s \in Sessions : pc[s] = "idle"

\* C6: every Handler built for protocol Trojan holds a token of exactly HEX_SIZE bytes,
\* all of them lowercase hexadecimal digits, derived from the configured secret
C6_TokenShape ==
    (IsSome(handler) /\ H.protocol = "TROJAN")
        => /\ Len(H.secret) = HEX_SIZE
           /\ \A i \in 1..Len(H.secret) : H.secret[i] \in LowerHex
           /\ IsSome(outbound.secret)
           /\ H.secret = HexEncode(Sha224Digest(Unwrap(outbound.secret)))

\* C7: once dispatch has returned Ok because one relay direction ended, no further
\* byte of either direction is delivered to its sink
C7_NoBytesAfterRaceEnd ==
    [][\A s \in Sessions : (pc[s] = "done" /\ result[s] = "Ok") => sent'[s] = sent[s]]_vars

\* C8: a dispatch call that has returned has returned Ok exactly when both relay
\* directions of its session have ended; none is still running
C8_OkIffBothEnded ==
    \A s \in Sessions :
        pc[s] = "done" => (result[s] = "Ok" <=> \A dir \in Directions : Ended(s, dir))

\* C9: a session whose escalation met an I/O failure has returned an error: it did not
\* start the relay, did not return Ok and was not aborted
C9_FailureSurfaced ==
    \A s \in Sessions :
        failure[s] # "none"
            => /\ pc[s] = "done"
               /\ result[s] \notin {"pending", "Ok", "panic"}
               /\ relay[s] = NoRelay

\* C10: a session whose relay started and whose dispatch call has ended returned Ok,
\* whether a direction ended by error or by EOF; a relay error never aborts the task,
\* and where select! polls the copies itself the error ends the call at once
C10_RelayErrorIsOk ==
    \A s \in Sessions :
        relay[s] # NoRelay
            => /\ pc[s] \in {"relay", "done"}
               /\ result[s] = IF pc[s] = "done" THEN "Ok" ELSE "pending"
               /\ (\E dir \in Directions : relay[s][dir] = "error") /\ ~Spawned(H.mode)
                      => pc[s] = "done"

C10_Witness ==
    \E s \in Sessions, dir \in Directions :
        /\ relay[s][dir] = "error"
        /\ pc[s] = "done"
        /\ result[s] = "Ok"

\* what one session holds
SessionState(s) == <<pc[s], request[s], result[s], failure[s], net[s], relay[s], sent[s]>>

\* C11: with two dispatch calls in flight on one Handler, no step changes the Handler
\* once built (nor the configuration it was built from), and a step that changes one
\* session leaves the other session as it was
C11_HandlerReadOnly ==
    [][/\ IsSome(handler) => handler' = handler
       /\ outbound' = outbound
       /\ \A s, t \in Sessions :
             (s # t /\ SessionState(s)' # SessionState(s))
                 => SessionState(t)' = SessionState(t)]_vars

C11_Witness ==
    /\ pc["s1"] = "relay" /\ pc["s2"] = "relay"
    /\ request["s1"] # request["s2"]
    /\ sent["s1"].up > 0 /\ sent["s2"].up > 0

\* the positions inside the escalator dispatch calls for a mode
ModeLabels(mode) ==
    CASE mode = "DIRECT" -> {"direct", "direct_udp"}
      [] mode = "TCP" -> {"tcp", "tcp_tls", "tcp_protocol", "tcp_handshake"}
      [] mode = "GRPC" -> {"grpc", "grpc_proxy"}
      [] mode = "QUIC" -> {"quic", "quic_open", "quic_handshake"}

\* the results the escalator of a mode ends with
ModeResults(mode) ==
    CASE mode = "DIRECT" -> {"Ok", "ConnectionRefused"} \cup BindErrors
      [] mode = "TCP" -> {"Ok", "NotConnected", "InvalidInput", "Unsupported"}
                            \cup DialErrors \cup TlsErrors \cup WriteErrors
      [] mode = "GRPC" -> {"Ok", "ConnectionRefused", "Interrupted", "panic"}
      [] mode = "QUIC" -> {"Ok", "panic"}

\* C12: a dispatched session is, from the call to its end, inside the one escalator of
\* the Handler's mode or in the relay that escalator started, and the call ends with a
\* result of that escalator
C12_OneEscalator ==
    \A s \in Sessions :
        pc[s] # "idle"
            => /\ pc[s] \in ModeLabels(H.mode) \cup {"relay", "done", "aborted"}
               /\ pc[s] \in {"done", "aborted"} <=> result[s] # "pending"
               /\ result[s] # "pending" => result[s] \in ModeResults(H.mode)
               /\ H.mode = "DIRECT" => net[s].hs = 0
               /\ H.mode = "QUIC" => net[s].target \in {None, Some(QuicRemote)}

C12_Witness ==
    \E s \in Sessions :
        /\ IsSome(handler) /\ H.mode = "GRPC"
        /\ pc[s] = "done" /\ result[s] = "Interrupted"

\* C13: in Tcp, Grpc and Quic mode the handshake is written once, no relay byte goes
\* toward the remote peer before it is written, and a session whose handshake write
\* failed sends no relay byte
C13_HandshakeBeforeRelay ==
    \A s \in Sessions :
        (IsSome(handler) /\ H.mode \in {"TCP", "GRPC", "QUIC"})
            => /\ net[s].hs <= 1
               /\ sent[s].up > 0 => net[s].hs = 1
               /\ failure[s] = "handshake" => sent[s].up = 0 /\ relay[s] = NoRelay

\* C14: every handshake or control message written carries a token of HEX_SIZE bytes
C14_NoShortTokenSent ==
    \A s \in Sessions :
        IsSome(net[s].hsWidth) => Unwrap(net[s].hsWidth) = HEX_SIZE

\* application bytes went toward the remote peer: the header or a relayed chunk
AppBytesSent(s) == net[s].hs > 0 \/ sent[s].up > 0

\* C15: with tls set, a session that has sent application bytes toward the remote peer
\* has TLS on its outbound connection, in every mode
C15_TlsBeforeAppBytes ==
    \A s \in Sessions :
        (IsSome(handler) /\ IsSome(H.tls) /\ AppBytesSent(s)) => net[s].tls

\* C15 amended: with tls set, a session of any mode but Direct that has sent application
\* bytes has TLS on its outbound link (Tcp: the completed TLS handshake, Grpc: the https
\* endpoint, Quic: the QUIC connection); a Direct session never has
C15_TlsBeforeAppBytesTunnel ==
    \A s \in Sessions :
        IsSome(handler)
            => /\ (H.mode # "DIRECT" /\ IsSome(H.tls) /\ (AppBytesSent(s) \/ relay[s] # NoRelay))
                      => net[s].tls
               /\ H.mode = "DIRECT" => ~net[s].tls

C15_Witness ==
    \E s \in Sessions :
        /\ IsSome(handler) /\ H.mode = "TCP" /\ IsSome(H.tls)
        /\ net[s].tls /\ net[s].hs = 1 /\ sent[s].up > 0

\* C16: the one address a session dials is the Handler's destination when it has one
\* and the request's address otherwise; stated for the modes that dial a remote proxy
\* peer (Direct mode dials the request's address by design)
C16_SingleDialSource ==
    \A s \in Sessions :
        (net[s].dials > 0 /\ H.mode # "DIRECT")
            => /\ net[s].dials = 1
               /\ net[s].target = IF IsSome(H.destination)
                                  THEN H.destination
                                  ELSE Some(Req(s).addr)

\* C17: a failed dial in Direct, Tcp or Grpc mode ends the call with ConnectionRefused
\* (the destination unreachable error) after a single dial attempt
C17_DialFailureKind ==
    \A s \in Sessions :
        (IsSome(handler) /\ H.mode \in {"DIRECT", "TCP", "GRPC"} /\ failure[s] = "dial")
            => /\ result[s] = "ConnectionRefused"
               /\ pc[s] = "done"
               /\ net[s].dials = 1

\* C18: once the relay runs and a direction has terminated (EOF or error), the
\* dispatch call eventually returns Ok, whether or not the other direction ever ends
C18_RelayReturns ==
    \A s \in {"s1"} :
        (\E dir \in Directions : relay[s][dir] \in {"eof", "error"})
            ~> (pc[s] = "done" /\ result[s] = "Ok")

C18_Witness ==
    \E s \in Sessions, dir \in Directions :
        /\ relay[s][dir] \in {"eof", "error"}
        /\ relay[s][Other(dir)] = "running"
        /\ pc[s] = "done" /\ result[s] = "Ok"

ExactlyOne(cfg) == IsSome(cfg.address) # IsSome(cfg.port)

\* C19: a Handler that Handler::new returned has a destination exactly when address and
\* port are both configured, and then it is that pair; with exactly one of the two
\* configured Handler::new returns an error and no Handler
C19_DestinationFromPair ==
    /\ newResult = "Ok"
          => /\ IsSome(handler)
             /\ ~ExactlyOne(outbound)
             /\ H.destination = IF IsSome(outbound.address) /\ IsSome(outbound.port)
                                THEN Some(<<Unwrap(outbound.address), Unwrap(outbound.port)>>)
                                ELSE None
    /\ (ExactlyOne(outbound) /\ newResult # "pending")
          => newResult = "InvalidInput" /\ handler = None
    /\ newResult # "Ok" => handler = None /\ \A s \in Sessions : pc[s] = "idle"

C19_Witness ==
    /\ ExactlyOne(outbound) /\ outbound.tls = None
    /\ newResult = "InvalidInput" /\ handler = None

====
